---------------------------- MODULE Spec2Model ----------------------------
(***************************************************************************)
(* Account linking step of the SATOSA proxy                                *)
(* (src/src/satosa/account_linking.py, class AccountLinkingModule).        *)
(*                                                                         *)
(* One action is one HTTP turn: either the pipeline calls manage_al with   *)
(* a freshly authenticated identity (first pass), or the browser comes     *)
(* back to the registered endpoint and _handle_al_response runs            *)
(* (resumption).  The account linking service is outside the program: its  *)
(* answer to the one GET of a turn is an input of the turn.                *)
(***************************************************************************)
EXTENDS Integers, Sequences, FiniteSets, TLC

VARIABLES
    config,      \* the proxy configuration handed to __init__ (immutable)
    session,     \* context.state of the one session: key -> stored value
    turn,        \* what the last HTTP turn received, did and returned
    origin,      \* history: the identity the running attempt started with
    roundTrips,  \* history: consecutive 404 answers of the running attempt
    lastSaved,   \* history: the identity of the most recent state.add
    earlier      \* history: the attempt that was still awaiting approval
                 \* when the running attempt was redirected

vars == <<config, session, turn, origin, roundTrips, lastSaved, earlier>>

-----------------------------------------------------------------------------
(* Bounds and input domains *)

\* 404 answers of one attempt that roundTrips tells apart; it stays at this
\* value when the attempt collects more
MaxRoundTrips == 3

Issuers == {"https://idp.example", "https://idp2.example"}
UserIds == {"abc123", "xyz789"}
AttributeSets == { [mail |-> <<"a@example">>],
                   [mail |-> <<"a@example", "b@example">>] }

\* response.text of the service: a canonical id or a ticket, any string,
\* possibly one that is also an upstream user id
Texts == {"acct-9f3", "abc123"}

HTTP_OK == 200
HTTP_NOT_FOUND == 404
StatusCodes == {HTTP_OK, HTTP_NOT_FOUND, 500, 403}

\* InternalResponse, reduced to what the module reads and writes:
\* auth_info.issuer, the user id, and the attributes it carries along
InternalResponses(ids) ==
    [issuer : Issuers, user_id : ids, attributes : AttributeSets]

\* what requests.get can do: raise ConnectionError, or return a response
Unreachable == [conn |-> FALSE, status_code |-> 0, text |-> ""]
ServiceAnswers ==
    [conn : {TRUE}, status_code : StatusCodes, text : Texts] \cup {Unreachable}

-----------------------------------------------------------------------------
(* Configuration *)

STATE_KEY == "ACCOUNT_LINKING"

ProxyBase == "https://proxy.example"
ALSection ==
    [api_url |-> "https://al.example/api",
     redirect_url |-> "https://link.example/approve",
     sign_key |-> "private.key"]

WithEnable(section, flag) ==
    [k \in DOMAIN section \cup {"enable"} |->
        IF k = "enable" THEN flag ELSE section[k]]

\* the configurations the proxy can be started with: no ACCOUNT_LINKING
\* section, a section without "enable", a section with enable true or false
Configs ==
    { [BASE |-> ProxyBase],
      [BASE |-> ProxyBase, ACCOUNT_LINKING |-> ALSection],
      [BASE |-> ProxyBase, ACCOUNT_LINKING |-> WithEnable(ALSection, TRUE)],
      [BASE |-> ProxyBase, ACCOUNT_LINKING |-> WithEnable(ALSection, FALSE)] }

\* __init__: self.enabled
Enabled(cfg) ==
    /\ "ACCOUNT_LINKING" \in DOMAIN cfg
    /\ \/ "enable" \notin DOMAIN cfg["ACCOUNT_LINKING"]
       \/ cfg["ACCOUNT_LINKING"]["enable"]

\* __init__: self.endpoint.  Urls and paths are sequences of pieces, so that
\* a formatted string is the concatenation of its parts.
endpoint == <<"/", "handle_account_linking">>


-----------------------------------------------------------------------------
(* Collaborators: the session store and the InternalResponse serialization *)

\* context.state.add(key, data): binds key, replacing what was bound
State_add(state, key, data) ==
    [k \in DOMAIN state \cup {key} |-> IF k = key THEN data ELSE state[k]]

\* context.state.remove(key): KeyError when key is not bound
\* (manage_al catches exactly that)
State_remove(state, key) ==
    [raised |-> key \notin DOMAIN state,
     state  |-> [k \in DOMAIN state \ {key} |-> state[k]]]

\* context.state.get(key): the value bound to key; reads, never unbinds
State_has(state, key) == key \in DOMAIN state
State_get(state, key) == state[key]

\* InternalResponse.to_dict / from_dict: the stored form nests the issuer
\* under auth_info and names the attributes "attr"
to_dict(internal_response) ==
    [auth_info |-> [issuer |-> internal_response.issuer],
     user_id   |-> internal_response.user_id,
     attr      |-> internal_response.attributes]

from_dict(int_resp_dict) ==
    [issuer     |-> int_resp_dict.auth_info.issuer,
     user_id    |-> int_resp_dict.user_id,
     attributes |-> int_resp_dict.attr]

get_user_id(internal_response) == internal_response.user_id
set_user_id(internal_response, user_id) ==
    [internal_response EXCEPT !.user_id = user_id]

\* JWS(json.dumps(data), alg).sign_compact([key]): the payload under the
\* configured key and algorithm
sign_compact(data, key) == [alg |-> "RS256", key |-> key, payload |-> data]

-----------------------------------------------------------------------------
(* What a turn returns or raises *)

NoReason == [msg |-> "", status_code |-> 0]
CallbackResponse ==
    [kind |-> "Response", location |-> <<>>, reason |-> NoReason]
Redirect(url) ==
    [kind |-> "Redirect", location |-> url, reason |-> NoReason]
SATOSAAuthenticationError(msg, code) ==
    [kind |-> "SATOSAAuthenticationError", location |-> <<>>,
     reason |-> [msg |-> msg, status_code |-> code]]
\* an exception that is not a SATOSAAuthenticationError and that the module
\* does not catch
UnhandledException(msg) ==
    [kind |-> "UnhandledException", location |-> <<>>,
     reason |-> [msg |-> msg, status_code |-> 0]]

-----------------------------------------------------------------------------
(* AccountLinkingModule *)

\* variant: _get_uuid without the check of the status code (lines 146-149)
get_uuid_no_status_check(cfg, issuer, id, answer) ==
    LET data == [idp |-> issuer,
                 id  |-> id,
                 redirect_endpoint |->
                     <<cfg["BASE"]>> \o <<"/", "account_linking">> \o endpoint]
        jws == sign_compact(data, cfg["ACCOUNT_LINKING"]["sign_key"])
        request == <<cfg["ACCOUNT_LINKING"]["api_url"], "/get_id?jwt=", jws>>
    IN  IF ~answer.conn
        THEN [request |-> request, raised |-> TRUE,
              error |-> SATOSAAuthenticationError(
                            "Could not connect to account linking service", 0),
              status_code |-> 0, message |-> ""]
        ELSE [request |-> request, raised |-> FALSE,
              error |-> CallbackResponse,
              status_code |-> answer.status_code, message |-> answer.text]

\* variant: the redirect endpoint is built without the "/account_linking"
\* prefix of the registered pattern
get_uuid_bare_endpoint(cfg, issuer, id, answer) ==
    LET data == [idp |-> issuer,
                 id  |-> id,
                 redirect_endpoint |-> <<cfg["BASE"]>> \o endpoint]
        jws == sign_compact(data, cfg["ACCOUNT_LINKING"]["sign_key"])
        request == <<cfg["ACCOUNT_LINKING"]["api_url"], "/get_id?jwt=", jws>>
    IN  IF ~answer.conn
        THEN [request |-> request, raised |-> TRUE,
              error |-> SATOSAAuthenticationError(
                            "Could not connect to account linking service", 0),
              status_code |-> 0, message |-> ""]
        ELSE IF answer.status_code \notin {HTTP_OK, HTTP_NOT_FOUND}
        THEN [request |-> request, raised |-> TRUE,
              error |-> SATOSAAuthenticationError(
                            "Got status code", answer.status_code),
              status_code |-> 0, message |-> ""]
        ELSE [request |-> request, raised |-> FALSE,
              error |-> CallbackResponse,
              status_code |-> answer.status_code, message |-> answer.text]

\* _get_uuid: the signed query, the one GET, and the status check
get_uuid(cfg, issuer, id, answer) ==
    LET data == [idp |-> issuer,
                 id  |-> id,
                 redirect_endpoint |->
                     <<cfg["BASE"]>> \o <<"/", "account_linking">> \o endpoint]
        jws == sign_compact(data, cfg["ACCOUNT_LINKING"]["sign_key"])
        request == <<cfg["ACCOUNT_LINKING"]["api_url"], "/get_id?jwt=", jws>>
    IN  IF ~answer.conn
        THEN [request |-> request, raised |-> TRUE,
              error |-> SATOSAAuthenticationError(
                            "Could not connect to account linking service", 0),
              status_code |-> 0, message |-> ""]
        ELSE IF answer.status_code \notin {HTTP_OK, HTTP_NOT_FOUND}
        THEN [request |-> request, raised |-> TRUE,
              error |-> SATOSAAuthenticationError(
                            "Got status code", answer.status_code),
              status_code |-> 0, message |-> ""]
        ELSE [request |-> request, raised |-> FALSE,
              error |-> CallbackResponse,
              status_code |-> answer.status_code, message |-> answer.text]

\* variant: _approve_new_id that redirects without saving the identity
approve_new_id_no_save(cfg, state, internal_response, ticket) ==
    [state  |-> state,
     writes |-> <<>>,
     result |-> Redirect(<<cfg["ACCOUNT_LINKING"]["redirect_url"], "/", ticket>>)]

\* variant: the service's message is put in the identity before it is saved
approve_new_id_saves_ticket(cfg, state, internal_response, ticket) ==
    LET changed == set_user_id(internal_response, ticket)
    IN  [state  |-> State_add(state, STATE_KEY, to_dict(changed)),
         writes |-> << [key |-> STATE_KEY, value |-> to_dict(changed)] >>,
         result |-> Redirect(<<cfg["ACCOUNT_LINKING"]["redirect_url"], "/", ticket>>)]

\* variant: the identity is saved under a key of its own, not under STATE_KEY
approve_new_id_key_per_issuer(cfg, state, internal_response, ticket) ==
    [state  |-> State_add(state, internal_response.issuer,
                          to_dict(internal_response)),
     writes |-> << [key |-> internal_response.issuer,
                    value |-> to_dict(internal_response)] >>,
     result |-> Redirect(<<cfg["ACCOUNT_LINKING"]["redirect_url"], "/", ticket>>)]

\* variant: a pending state already in the session is not replaced
approve_new_id_keeps_first(cfg, state, internal_response, ticket) ==
    [state  |-> IF State_has(state, STATE_KEY) THEN state
                ELSE State_add(state, STATE_KEY, to_dict(internal_response)),
     writes |-> IF State_has(state, STATE_KEY) THEN <<>>
                ELSE << [key |-> STATE_KEY, value |-> to_dict(internal_response)] >>,
     result |-> Redirect(<<cfg["ACCOUNT_LINKING"]["redirect_url"], "/", ticket>>)]

\* _approve_new_id: save the identity under STATE_KEY, redirect to the ticket
approve_new_id(cfg, state, internal_response, ticket) ==
    [state  |-> State_add(state, STATE_KEY, to_dict(internal_response)),
     writes |-> << [key |-> STATE_KEY, value |-> to_dict(internal_response)] >>,
     result |-> Redirect(<<cfg["ACCOUNT_LINKING"]["redirect_url"], "/", ticket>>)]

\* variant: state.remove(STATE_KEY) without the try/except around it
clear_state_no_except(state) == State_remove(state, STATE_KEY)

\* manage_al, lines 87-90: try: state.remove(STATE_KEY) except KeyError: pass
clear_state(state) ==
    [raised |-> FALSE, state |-> State_remove(state, STATE_KEY).state]

\* variant: the linked branch without set_user_id(message)
linked_keeps_user_id(state, internal_response, request, message) ==
    [state |-> clear_state(state).state, queries |-> <<request>>,
     callbacks |-> <<internal_response>>, writes |-> <<>>,
     result |-> CallbackResponse]

\* variant: the linked branch without state.remove(STATE_KEY)
linked_keeps_state(state, internal_response, request, message) ==
    [state |-> state, queries |-> <<request>>,
     callbacks |-> <<set_user_id(internal_response, message)>>,
     writes |-> <<>>, result |-> CallbackResponse]

\* variant: the linked branch hands on a new identity without the attributes
linked_drops_attributes(state, internal_response, request, message) ==
    [state |-> clear_state(state).state, queries |-> <<request>>,
     callbacks |-> << [issuer |-> internal_response.issuer,
                       user_id |-> message,
                       attributes |-> [mail |-> <<>>]] >>,
     writes |-> <<>>, result |-> CallbackResponse]

\* manage_al, lines 83-91: the service says the pair is linked
linked(state, internal_response, request, message) ==
    LET updated == set_user_id(internal_response, message)
        cleared == clear_state(state)
    IN  IF cleared.raised
        THEN [state |-> state, queries |-> <<request>>, callbacks |-> <<>>,
              writes |-> <<>>, result |-> UnhandledException("KeyError")]
        ELSE [state |-> cleared.state, queries |-> <<request>>,
              callbacks |-> <<updated>>, writes |-> <<>>,
              result |-> CallbackResponse]

\* variant: the disabled branch clears the pending state as the linked one does
pass_through_clears(state, internal_response) ==
    [state |-> clear_state(state).state, queries |-> <<>>,
     callbacks |-> <<internal_response>>, writes |-> <<>>,
     result |-> CallbackResponse]

\* manage_al, lines 76-77: linking is not enabled
pass_through(state, internal_response) ==
    [state |-> state, queries |-> <<>>, callbacks |-> <<internal_response>>,
     writes |-> <<>>, result |-> CallbackResponse]

\* variant: a failed query is sent once more before the turn gives up
manage_al_retries(cfg, state, internal_response, answer) ==
    IF ~Enabled(cfg)
    THEN pass_through(state, internal_response)
    ELSE LET issuer == internal_response.issuer
             id == get_user_id(internal_response)
             got == get_uuid(cfg, issuer, id, answer)
         IN  IF got.raised
             THEN [state |-> state, queries |-> <<got.request, got.request>>,
                   callbacks |-> <<>>, writes |-> <<>>, result |-> got.error]
             ELSE IF got.status_code = HTTP_OK
             THEN linked(state, internal_response, got.request, got.message)
             ELSE LET approve == approve_new_id(cfg, state, internal_response,
                                                got.message)
                  IN  [state |-> approve.state, queries |-> <<got.request>>,
                       callbacks |-> <<>>, writes |-> approve.writes,
                       result |-> approve.result]

\* variant: a failed query lets the identity through as it came
manage_al_degraded(cfg, state, internal_response, answer) ==
    IF ~Enabled(cfg)
    THEN pass_through(state, internal_response)
    ELSE LET issuer == internal_response.issuer
             id == get_user_id(internal_response)
             got == get_uuid(cfg, issuer, id, answer)
         IN  IF got.raised
             THEN [state |-> state, queries |-> <<got.request>>,
                   callbacks |-> <<internal_response>>, writes |-> <<>>,
                   result |-> CallbackResponse]
             ELSE IF got.status_code = HTTP_OK
             THEN linked(state, internal_response, got.request, got.message)
             ELSE LET approve == approve_new_id(cfg, state, internal_response,
                                                got.message)
                  IN  [state |-> approve.state, queries |-> <<got.request>>,
                       callbacks |-> <<>>, writes |-> approve.writes,
                       result |-> approve.result]

\* manage_al: pass through, or ask the service and act on its answer
manage_al(cfg, state, internal_response, answer) ==
    IF ~Enabled(cfg)
    THEN pass_through(state, internal_response)
    ELSE LET issuer == internal_response.issuer
             id == get_user_id(internal_response)
             got == get_uuid(cfg, issuer, id, answer)
         IN  IF got.raised
             THEN [state |-> state, queries |-> <<got.request>>,
                   callbacks |-> <<>>, writes |-> <<>>, result |-> got.error]
             ELSE IF got.status_code = HTTP_OK
             THEN linked(state, internal_response, got.request, got.message)
             ELSE LET approve == approve_new_id(cfg, state, internal_response,
                                                got.message)
                  IN  [state |-> approve.state, queries |-> <<got.request>>,
                       callbacks |-> <<>>, writes |-> approve.writes,
                       result |-> approve.result]

\* variant: _handle_al_response removes the saved state when it reads it
handle_al_response_load_and_clear(cfg, state, answer) ==
    IF ~State_has(state, STATE_KEY)
    THEN [state |-> state, queries |-> <<>>, callbacks |-> <<>>,
          writes |-> <<>>, result |-> UnhandledException("no saved state")]
    ELSE LET saved_state == State_get(state, STATE_KEY)
             internal_response == from_dict(saved_state)
         IN  manage_al(cfg, State_remove(state, STATE_KEY).state,
                       internal_response, answer)

\* _handle_al_response: read the saved state, rebuild the identity, go on
\* as in the first pass.  Nothing here checks that a state was saved.
handle_al_response(cfg, state, answer) ==
    IF ~State_has(state, STATE_KEY)
    THEN [state |-> state, queries |-> <<>>, callbacks |-> <<>>,
          writes |-> <<>>, result |-> UnhandledException("no saved state")]
    ELSE LET saved_state == State_get(state, STATE_KEY)
             internal_response == from_dict(saved_state)
         IN  manage_al(cfg, state, internal_response, answer)

\* register_endpoints: the pattern bound to _handle_al_response; it reads
\* self.endpoint, which __init__ sets only when linking is enabled
register_endpoints(cfg) ==
    IF Enabled(cfg)
    THEN { [pattern |-> <<"^", "account_linking">> \o endpoint \o <<"$">>,
            handler |-> "handle_al_response"] }
    ELSE {}

-----------------------------------------------------------------------------
(* The state machine: one action per HTTP turn *)

NoTurn ==
    [handler |-> "none", received |-> <<>>, before |-> <<>>,
     answer |-> Unreachable, queries |-> <<>>, callbacks |-> <<>>,
     writes |-> <<>>, result |-> CallbackResponse]

\* The module is built once per process; the session is the user's and may
\* be new, or may still hold what an earlier _approve_new_id saved in it.
Init ==
    /\ config \in Configs
    /\ turn = NoTurn
    /\ \/ /\ session = <<>>
          /\ origin = <<>>
          /\ roundTrips = 0
          /\ lastSaved = <<>>
          /\ earlier = <<>>
       \/ \E saved \in InternalResponses(UserIds) :
            /\ session = State_add(<<>>, STATE_KEY, to_dict(saved))
            /\ origin = <<saved>>
            /\ roundTrips = 1
            /\ lastSaved = << [key |-> STATE_KEY, value |-> to_dict(saved)] >>
            /\ earlier = <<>>

Record(handler, received, answer, done) ==
    [handler |-> handler, received |-> received, before |-> session,
     answer |-> answer, queries |-> done.queries,
     callbacks |-> done.callbacks, writes |-> done.writes,
     result |-> done.result]

Min(a, b) == IF a <= b THEN a ELSE b

\* an attempt was redirected to the service and has not been resumed to an
\* end: its identity is origin
Awaiting == origin # <<>> /\ session # <<>>

\* the pipeline hands a freshly authenticated identity to manage_al
FirstPassTurn(internal_response, answer) ==
        LET done == manage_al(config, session, internal_response, answer)
        IN  /\ session' = done.state
            /\ turn' = Record("manage_al", <<internal_response>>, answer, done)
            /\ lastSaved' = IF done.writes = <<>> THEN lastSaved ELSE done.writes
            /\ origin' = IF done.result.kind = "Redirect"
                         THEN <<internal_response>>
                         ELSE IF done.queries # <<>> /\ done.callbacks # <<>>
                         THEN <<>>
                         ELSE origin
            /\ roundTrips' = IF done.result.kind = "Redirect" THEN 1
                             ELSE IF done.queries # <<>> /\ done.callbacks # <<>>
                             THEN 0
                             ELSE roundTrips
            /\ UNCHANGED config

ManageAl ==
    \E internal_response \in InternalResponses(UserIds), answer \in ServiceAnswers :
        /\ FirstPassTurn(internal_response, answer)
        /\ UNCHANGED earlier

\* the same turn, also remembering the attempt it found awaiting approval
ManageAlSecondAttempt ==
    \E internal_response \in InternalResponses(UserIds), answer \in ServiceAnswers :
        /\ FirstPassTurn(internal_response, answer)
        /\ earlier' = IF turn'.result.kind = "Redirect"
                      THEN IF Awaiting /\ origin # <<internal_response>>
                           THEN origin
                           ELSE IF origin = <<internal_response>>
                           THEN earlier
                           ELSE <<>>
                      ELSE IF turn'.queries # <<>> /\ turn'.callbacks # <<>>
                      THEN <<>>
                      ELSE earlier

\* the browser requests the endpoint register_endpoints bound to
\* _handle_al_response
HandleAlResponse ==
    /\ register_endpoints(config) # {}
    /\ \E answer \in ServiceAnswers :
        LET done == handle_al_response(config, session, answer)
        IN  /\ session' = done.state
            /\ turn' = Record("handle_al_response", <<>>, answer, done)
            /\ lastSaved' = IF done.writes = <<>> THEN lastSaved ELSE done.writes
            /\ roundTrips' = IF done.result.kind = "Redirect"
                             THEN Min(roundTrips + 1, MaxRoundTrips)
                             ELSE roundTrips
            /\ UNCHANGED <<config, origin, earlier>>

Next == ManageAl \/ HandleAlResponse

Spec == Init /\ [][Next]_vars

\* several attempts in one session, told apart
NextAttempts == ManageAlSecondAttempt \/ HandleAlResponse
SpecAttempts == Init /\ [][NextAttempts]_vars

\* One attempt alone in its session: the first pass, then only the browser
\* coming back from the service after each redirect.
StartAttempt == turn.handler = "none" /\ ManageAl
FollowRedirect == turn.result.kind = "Redirect" /\ HandleAlResponse
\* the service answers the query of a resumption with something else than 404
ServiceSettles ==
    /\ FollowRedirect
    /\ ~(turn'.answer.conn /\ turn'.answer.status_code = HTTP_NOT_FOUND)

NextOneAttempt == StartAttempt \/ FollowRedirect

\* the user follows every redirect back to the endpoint, and the service
\* does not answer 404 for ever
SpecOneAttempt ==
    /\ Init /\ [][NextOneAttempt]_vars
    /\ WF_vars(FollowRedirect)
    /\ WF_vars(ServiceSettles)

\* the user follows every redirect back; nothing is assumed of the service
SpecOneAttemptAnyService ==
    /\ Init /\ [][NextOneAttempt]_vars
    /\ WF_vars(FollowRedirect)


-----------------------------------------------------------------------------
(* Vocabulary of the properties *)

\* the configuration switches linking off: no section, or enable = false
LinkingOff ==
    \/ "ACCOUNT_LINKING" \notin DOMAIN config
    \/ /\ "enable" \in DOMAIN config["ACCOUNT_LINKING"]
       /\ ~config["ACCOUNT_LINKING"]["enable"]
LinkingOn == ~LinkingOff

FirstPass == turn.handler = "manage_al"
Resumption == turn.handler = "handle_al_response"

Pending(state) == STATE_KEY \in DOMAIN state
PendingBefore == Pending(turn.before)

\* the identity the turn worked on: the one received, or the one reloaded
Worked ==
    IF FirstPass THEN turn.received[1] ELSE from_dict(turn.before[STATE_KEY])

Queried == turn.queries # <<>>
Answered(code) == turn.answer.conn /\ turn.answer.status_code = code
ServiceFailed ==
    \/ ~turn.answer.conn
    \/ turn.answer.status_code \notin {200, 404}

ApprovalUrl(ticket) == <<"https://link.example/approve", "/", ticket>>

-----------------------------------------------------------------------------
(* C1: with linking disabled, manage_al calls the continuation exactly once
   with the identity exactly as received, sends no query to the linking
   service and leaves the session store as it found it. *)
C1_DisabledPassThrough ==
    (FirstPass /\ LinkingOff) =>
        /\ turn.callbacks = turn.received
        /\ Len(turn.callbacks) = 1
        /\ turn.queries = <<>>
        /\ turn.writes = <<>>
        /\ session = turn.before
        /\ turn.result.kind = "Response"

\* a disabled first pass in a session that still holds a pending state
C1_Witness ==
    /\ FirstPass /\ LinkingOff
    /\ PendingBefore /\ Pending(session)

(* C2: with linking enabled, a 200 answer with body U makes the turn call
   the continuation with the identity whose user id is U, and leaves nothing
   under STATE_KEY, whatever the session held before. *)
C2_LinkedReplacesSubject ==
    (LinkingOn /\ Queried /\ Answered(200)) =>
        /\ turn.callbacks =
              << [Worked EXCEPT !.user_id = turn.answer.text] >>
        /\ ~Pending(session)
        /\ turn.result.kind = "Response"

\* a 200 first pass in a session that held another identity's pending state
C2_Witness ==
    /\ FirstPass /\ LinkingOn /\ Answered(200)
    /\ PendingBefore
    /\ from_dict(turn.before[STATE_KEY]) # turn.received[1]
    /\ turn.answer.text # turn.received[1].user_id

(* C3: with linking enabled, a 404 answer with body T ends the turn with a
   redirect to redirect_url/T, the continuation is not called, and the
   pending state then is the identity as it was before the query. *)
C3_UnlinkedRedirectsAndSaves ==
    (LinkingOn /\ Queried /\ Answered(404)) =>
        /\ turn.result = Redirect(ApprovalUrl(turn.answer.text))
        /\ turn.callbacks = <<>>
        /\ Pending(session)
        /\ from_dict(session[STATE_KEY]) = Worked

\* a 404 first pass that replaces another identity's pending state
C3_Witness ==
    /\ FirstPass /\ LinkingOn /\ Answered(404)
    /\ PendingBefore
    /\ turn.before[STATE_KEY] # session[STATE_KEY]

(* C4: any service outcome other than 200 or 404 (500, 403, unreachable)
   ends the turn with SATOSAAuthenticationError; the continuation is not
   called, nothing is redirected, no user id is replaced and the turn
   writes nothing to the session. *)
C4_ServiceFailureIsFatal ==
    (LinkingOn /\ Queried /\ ServiceFailed) =>
        /\ turn.result.kind = "SATOSAAuthenticationError"
        /\ turn.callbacks = <<>>
        /\ turn.result.location = <<>>
        /\ turn.writes = <<>>
        /\ session = turn.before

\* a failed query in a session that holds a pending state
C4_Witness ==
    /\ FirstPass /\ LinkingOn /\ Queried
    /\ Answered(500)
    /\ PendingBefore

\* what the one query of the turn asked about
Asked == turn.queries[1][3].payload

(* C5: a resumption that finds pending state S asks the service once more
   about S's issuer and user id; if the answer is 200 with body U, the turn
   ends as a direct 200 does: the continuation gets S with user id U and no
   pending state remains. *)
C5_ResumptionMatchesDirect ==
    (Resumption /\ PendingBefore) =>
        LET S == origin[1]
        IN  /\ Len(turn.queries) = 1
            /\ Asked.idp = S.issuer
            /\ Asked.id = S.user_id
            /\ Answered(200) =>
                 /\ turn.callbacks =
                       << [S EXCEPT !.user_id = turn.answer.text] >>
                 /\ ~Pending(session)
                 /\ turn.result.kind = "Response"

\* a resumption answered 200 with a new canonical id
C5_Witness ==
    /\ Resumption /\ PendingBefore /\ Answered(200)
    /\ turn.callbacks # <<>>
    /\ turn.callbacks[1].user_id # origin[1].user_id

(* C6 as stated: the pending state is deleted when the resumption reads it,
   so after a resumption whose query failed none remains. *)
C6_ConsumedOnResumption ==
    (Resumption /\ PendingBefore /\ ServiceFailed) => ~Pending(session)

(* C6 as the code has it: the resumption reads the pending state and leaves
   it in place; after a resumption whose query failed the session still
   holds the same pending state. *)
C6_ReadNotDeleted ==
    (Resumption /\ PendingBefore /\ ServiceFailed) =>
        /\ Pending(session)
        /\ session[STATE_KEY] = turn.before[STATE_KEY]
        /\ turn.result.kind = "SATOSAAuthenticationError"

\* a resumption whose query could not reach the service
C6_Witness ==
    /\ Resumption /\ PendingBefore /\ ~turn.answer.conn
    /\ Queried

(* C7: a resumption in a session without pending state ends in the same
   authentication error as a service failure; no query is sent, the
   continuation is not called and nothing is written to the session. *)
C7_MissingStateIsAuthError ==
    (Resumption /\ ~PendingBefore) =>
        /\ turn.result.kind = "SATOSAAuthenticationError"
        /\ turn.queries = <<>>
        /\ turn.callbacks = <<>>
        /\ turn.writes = <<>>
        /\ session = turn.before

(* C8: the attempt may go round any number of times: every resumption
   answered 404 with ticket T redirects to redirect_url/T and leaves the
   pending state equal to the identity the attempt started with, and a 200
   with body U after n >= 1 such answers hands that identity with user id U
   to the continuation and leaves no pending state. *)
C8_ReentrantRoundTrips ==
    (Resumption /\ PendingBefore /\ roundTrips >= 1) =>
        /\ Answered(404) =>
             /\ turn.result = Redirect(ApprovalUrl(turn.answer.text))
             /\ turn.callbacks = <<>>
             /\ Pending(session)
             /\ from_dict(session[STATE_KEY]) = origin[1]
             /\ roundTrips >= 2
        /\ Answered(200) =>
             /\ turn.callbacks =
                   << [origin[1] EXCEPT !.user_id = turn.answer.text] >>
             /\ ~Pending(session)

\* a 200 after the service answered 404 three times in a row
C8_Witness ==
    /\ Resumption /\ PendingBefore /\ Answered(200)
    /\ roundTrips >= 3
    /\ turn.callbacks # <<>>
    /\ origin[1].user_id \in UserIds

(* C9: on a 200 in a session that holds no pending state, removing the
   absent key raises nothing and the turn still calls the continuation with
   the updated identity. *)
C9_ClearToleratesAbsence ==
    (LinkingOn /\ Queried /\ Answered(200) /\ ~PendingBefore) =>
        /\ turn.result.kind = "Response"
        /\ Len(turn.callbacks) = 1
        /\ turn.callbacks[1].user_id = turn.answer.text
        /\ session = turn.before

\* a first pass answered 200 in a session where nothing was saved
C9_Witness ==
    /\ FirstPass /\ LinkingOn /\ Answered(200)
    /\ turn.before = <<>>
    /\ turn.callbacks # <<>>

(* C10: a session holds at most one pending state: it is stored under the
   one STATE_KEY, a save replaces what was there, and what is stored is
   either nothing or the identity of the most recent save. *)
C10_AtMostOnePending ==
    /\ DOMAIN session \subseteq {STATE_KEY}
    /\ Cardinality(DOMAIN session) <= 1
    /\ Pending(session) =>
         /\ lastSaved # <<>>
         /\ lastSaved[1].key = STATE_KEY
         /\ session[STATE_KEY] = lastSaved[1].value

\* a save that replaced a different pending state
C10_Witness ==
    /\ turn.writes # <<>>
    /\ PendingBefore
    /\ turn.before[STATE_KEY] # turn.writes[1].value
    /\ Cardinality(DOMAIN session) = 1

(* C11: two attempts in one session share the one pending state.  When
   attempt B was redirected while attempt A was still awaiting approval, B's
   save replaced A's: every later resumption, whichever approval brought the
   browser back, asks the service about B and continues B, and a resumption
   after that finds what the first one left (nothing, or B again), never
   A's identity. *)
C11_SecondAttemptTakesOver ==
    (Resumption /\ earlier # <<>>) =>
        /\ earlier # origin
        /\ PendingBefore =>
             /\ from_dict(turn.before[STATE_KEY]) = origin[1]
             /\ Asked.idp = origin[1].issuer
             /\ Asked.id = origin[1].user_id
             /\ turn.callbacks # <<>> =>
                  turn.callbacks =
                     << [origin[1] EXCEPT !.user_id = turn.answer.text] >>
        /\ ~PendingBefore => (turn.queries = <<>> /\ turn.callbacks = <<>>)
        /\ Pending(session) => from_dict(session[STATE_KEY]) = origin[1]

\* A (one issuer, one user id) was awaiting approval, B (the other issuer,
\* the other user id) was redirected too, and the resumption answered 200
\* hands B to the continuation
C11_Witness ==
    /\ Resumption /\ earlier # <<>> /\ PendingBefore /\ Answered(200)
    /\ earlier[1].issuer # origin[1].issuer
    /\ earlier[1].user_id # origin[1].user_id
    /\ turn.callbacks # <<>>
    /\ turn.callbacks[1].issuer = origin[1].issuer
    /\ turn.callbacks[1].issuer # earlier[1].issuer
    /\ ~Pending(session)

\* the turn got as far as asking the service
EntersQuerying == LinkingOn /\ (FirstPass \/ (Resumption /\ PendingBefore))

(* C12: no retry, no caching: a turn that gets as far as asking the service
   (a first pass with linking enabled, a resumption that finds pending state)
   sends exactly one query, whatever the answer and whatever the service said
   about the same pair before; a turn with linking disabled sends none. *)
C12_OneQueryPerTurn ==
    /\ EntersQuerying => Len(turn.queries) = 1
    /\ (turn.handler # "none" /\ LinkingOff) => turn.queries = <<>>

\* the third query in a row about the same pair, the two before answered 404
C12_Witness ==
    /\ Resumption /\ PendingBefore
    /\ roundTrips >= 3 /\ Answered(404)
    /\ Len(turn.queries) = 1
    /\ Asked.id = origin[1].user_id

(* C13: the only change the module makes to an identity is the user id, in
   a turn answered 200, to the body of that answer: what it hands on or
   saves has the issuer and the attributes it worked on, a changed user id
   only after a 200, and the saved pending state is the identity of the
   first pass with its upstream user id. *)
C13_OnlyUserIdOn200 ==
    /\ (FirstPass \/ (Resumption /\ PendingBefore)) =>
        /\ \A i \in 1..Len(turn.callbacks) :
             /\ turn.callbacks[i].issuer = Worked.issuer
             /\ turn.callbacks[i].attributes = Worked.attributes
             /\ turn.callbacks[i].user_id # Worked.user_id =>
                  /\ Answered(200)
                  /\ turn.callbacks[i].user_id = turn.answer.text
        /\ \A i \in 1..Len(turn.writes) :
             from_dict(turn.writes[i].value) = Worked
        /\ Resumption => Worked = origin[1]
    /\ Pending(session) =>
        /\ origin # <<>>
        /\ from_dict(session[STATE_KEY]) = origin[1]
        /\ origin[1].user_id \in UserIds

\* after a second 404 with a body that is not the user id, the saved
\* identity still has the upstream user id
C13_Witness ==
    /\ Resumption /\ PendingBefore /\ Answered(404)
    /\ roundTrips >= 2
    /\ Pending(session)
    /\ turn.answer.text # origin[1].user_id
    /\ session[STATE_KEY].user_id = origin[1].user_id

(* C14: with linking enabled the continuation is called only in a turn
   whose query was answered 200, once, with the user id of that answer,
   never with an identity that was not linked; and every turn ends in
   exactly one of: the continuation called once, a redirect, an error
   raised. *)
C14_AllOrNothing ==
    (LinkingOn /\ turn.handler # "none") =>
        /\ turn.callbacks # <<>> =>
             /\ Queried /\ Answered(200)
             /\ Len(turn.callbacks) = 1
             /\ turn.callbacks[1].user_id = turn.answer.text
        /\ \/ /\ turn.result.kind = "Response"
              /\ Len(turn.callbacks) = 1
              /\ turn.result.location = <<>>
           \/ /\ turn.result.kind = "Redirect"
              /\ turn.callbacks = <<>>
              /\ turn.result.location # <<>>
           \/ /\ turn.result.kind \in
                    {"SATOSAAuthenticationError", "UnhandledException"}
              /\ turn.callbacks = <<>>
              /\ turn.result.location = <<>>

\* a resumption answered 200 with a canonical id unlike the upstream one
C14_Witness ==
    /\ LinkingOn /\ Resumption /\ Answered(200)
    /\ Len(turn.callbacks) = 1
    /\ turn.callbacks[1].user_id = "acct-9f3"
    /\ turn.before[STATE_KEY].user_id # "acct-9f3"

\* the path the host matches against the registered patterns: the url
\* without the proxy's base and the slash after it
RequestPath(url) == SubSeq(url, 3, Len(url))
\* a pattern "^" literal "$" matches exactly the literal
Matches(pattern, path) == pattern = <<"^">> \o path \o <<"$">>

(* C15: the query of a turn carries exactly the issuer of the identity as
   "idp", its user id as it is before linking as "id", and as
   "redirect_endpoint" the proxy's base followed by
   /account_linking/handle_account_linking, the path register_endpoints
   binds to _handle_al_response. *)
C15_QueryPayloadAndEndpoint ==
    Queried =>
        /\ DOMAIN Asked = {"idp", "id", "redirect_endpoint"}
        /\ Asked.idp = Worked.issuer
        /\ Asked.id = Worked.user_id
        /\ Asked.redirect_endpoint =
              <<"https://proxy.example", "/", "account_linking",
                "/", "handle_account_linking">>
        /\ \E e \in register_endpoints(config) :
              /\ e.handler = "handle_al_response"
              /\ Matches(e.pattern, RequestPath(Asked.redirect_endpoint))

\* a query sent by the resumption handler, reached through that endpoint
C15_Witness ==
    /\ Resumption /\ Queried
    /\ Asked.idp = "https://idp2.example"
    /\ Asked.id = "xyz789"
    /\ Cardinality(register_endpoints(config)) = 1

AttemptAwaits == turn.handler # "none" /\ turn.result.kind = "Redirect"
AttemptEnded ==
    /\ turn.handler # "none"
    /\ \/ turn.result.kind = "Response" /\ Len(turn.callbacks) = 1
       \/ turn.result.kind = "SATOSAAuthenticationError"

(* C16: an attempt alone in its session, whose user follows every approval
   redirect back to the endpoint and whose service at some point answers
   with something else than 404, ends: the continuation is called, or an
   authentication error is raised. *)
C16_AttemptTerminates == AttemptAwaits ~> AttemptEnded

\* an attempt that was sent round three times and then ended in an error
C16_Witness ==
    /\ Resumption /\ roundTrips >= 3
    /\ turn.result.kind = "SATOSAAuthenticationError"
    /\ Pending(session)

(* C16, second half: with nothing assumed of the service the attempt need
   not end; this formula is violated under SpecOneAttemptAnyService by a run
   that is answered 404 for ever. *)
C16_TerminatesWhateverTheService == AttemptAwaits ~> AttemptEnded

=============================================================================
